---- MODULE Spec2Model ----
(***************************************************************************)
(* A model of pytest-gui's streaming test-result protocol: the child       *)
(* process writing lines to stdout/stderr, the two reader threads          *)
(* (enqueue_output), and the decoder Runner.poll with the test hierarchy   *)
(* (model.py) it updates.                                                  *)
(*                                                                         *)
(* Representation of Python values:                                        *)
(*   - None is <<>>, any other optional value x is <<x>>;                  *)
(*   - a dotted string "a.b.c" is the sequence of its dot-free segments    *)
(*     <<"a","b","c">> (the empty string is <<"">>), so str.split('.') and *)
(*     '%s.%s' % (p, n) are computed on segments;                          *)
(*   - a free text (error text, stderr text) is the sequence of the       *)
(*     atomic pieces it was concatenated from, '' is the empty sequence    *)
(*     and + is \o; a line of stderr is one piece;                         *)
(*   - a line of output is [t |-> "raw", s |-> text] when it is not JSON,  *)
(*     [t |-> "obj", o |-> record] when it is a JSON object, and           *)
(*     [t |-> "esc", o |-> record] when a JSON object follows a terminal   *)
(*     escape sequence;                                                    *)
(*   - times are whole seconds.                                            *)
(***************************************************************************)
EXTENDS Integers, Sequences, FiniteSets, TLC

None == <<>>
Some(x) == <<x>>

(***************************************************************************)
(* Bounds of the model.                                                    *)
(***************************************************************************)
MaxLines == 4
MaxErr == 1

(***************************************************************************)
(* model.py: status codes.                                                 *)
(***************************************************************************)
STATUS_PASS == 100
STATUS_SKIP == 200
STATUS_EXPECTED_FAIL == 300
STATUS_UNEXPECTED_SUCCESS == 400
STATUS_FAIL == 500
STATUS_ERROR == 600
FAILING_STATES == {STATUS_FAIL, STATUS_UNEXPECTED_SUCCESS, STATUS_ERROR}

(***************************************************************************)
(* pipes.py: the three marker lines.                                       *)
(***************************************************************************)
RESULT_SEPARATOR == [t |-> "raw", s |-> "US"]
START_TEST_RESULTS == [t |-> "raw", s |-> "STX"]
END_TEST_RESULTS == [t |-> "raw", s |-> "ETX"]
Markers == {RESULT_SEPARATOR, START_TEST_RESULTS, END_TEST_RESULTS}

(***************************************************************************)
(* json.loads(line): the object of a JSON line, ValueError otherwise.      *)
(* A line that still carries its escape prefix is not JSON.                *)
(***************************************************************************)
IsJson(line) == line.t = "obj"
JsonLoads(line) == line.o
Has(obj, key) == key \in DOMAIN obj

(***************************************************************************)
(* runner.py 274-275: strip a leading escape sequence up to the first '{'. *)
(***************************************************************************)
StripEscape(line) == IF line.t = "esc" THEN [t |-> "obj", o |-> line.o] ELSE line

(***************************************************************************)
(* runner.py parse_status_and_error(post).  The result is                  *)
(* [exc, status, error]; exc = "none" when the call returns.  error is an  *)
(* optional text (a frame's error field is a text).                        *)
(* 'Skipped: ' + post.get('error') raises TypeError when the frame has no  *)
(* error; an unknown status code leaves `status` unbound.                  *)
(***************************************************************************)
ParseOk(status, error) == [exc |-> "none", status |-> status, error |-> error]
ParseRaise(e) == [exc |-> e, status |-> 0, error |-> None]
GetError(post) == IF Has(post, "error") THEN Some(post.error) ELSE None

parse_status_and_error(post) ==
    IF ~Has(post, "status") THEN ParseRaise("KeyError")
    ELSE IF post.status = "OK" THEN ParseOk(STATUS_PASS, None)
    ELSE IF post.status = "s" THEN
        IF Has(post, "error")
        THEN ParseOk(STATUS_SKIP, Some(<<"Skipped: ">> \o post.error))
        ELSE ParseRaise("TypeError")
    ELSE IF post.status = "F" THEN ParseOk(STATUS_FAIL, GetError(post))
    ELSE IF post.status = "x" THEN ParseOk(STATUS_EXPECTED_FAIL, GetError(post))
    ELSE IF post.status = "u" THEN ParseOk(STATUS_UNEXPECTED_SUCCESS, None)
    ELSE IF post.status = "E" THEN ParseOk(STATUS_ERROR, GetError(post))
    ELSE ParseRaise("UnboundLocalError")

(***************************************************************************)
(* model.py: the hierarchy.  The tree is a function from a node's key      *)
(* chain (the dict keys from the Project down to the node) to the node;    *)
(* the Project itself is the chain <<>> and holds no fields.               *)
(***************************************************************************)
Parent(id) == SubSeq(id, 1, Len(id) - 1)
Children(nodes, id) ==
    {c \in DOMAIN nodes : Len(c) = Len(id) + 1 /\ Parent(c) = id}

NewNode(kind) ==
    [kind |-> kind, active |-> TRUE, result |-> None,
     description |-> <<>>, timestamp |-> None]

Put(nodes, id, node) ==
    [c \in DOMAIN nodes \cup {id} |-> IF c = id THEN node ELSE nodes[c]]

(***************************************************************************)
(* set_active and _update_active of TestMethod, TestCase and TestModule.   *)
(* A container's set_active first lets its parent recompute and then       *)
(* hands the value to each child with cascade=False; a child that already  *)
(* has the value does nothing.  Project._update_active does nothing.       *)
(***************************************************************************)
RECURSIVE set_active(_, _, _, _)
RECURSIVE SetChildren(_, _, _)
RECURSIVE update_active(_, _)

SetChildren(nodes, todo, is_active) ==
    IF todo = {} THEN nodes
    ELSE LET c == CHOOSE x \in todo : TRUE
         IN SetChildren(set_active(nodes, c, is_active, FALSE), todo \ {c}, is_active)

set_active(nodes, id, is_active, cascade) ==
    IF nodes[id].active = is_active THEN nodes
    ELSE IF nodes[id].kind = "TestMethod"
    THEN IF cascade
         THEN update_active([nodes EXCEPT ![id].active = is_active], Parent(id))
         ELSE [nodes EXCEPT ![id].active = is_active]
    ELSE SetChildren(IF cascade
                     THEN update_active([nodes EXCEPT ![id].active = is_active], Parent(id))
                     ELSE [nodes EXCEPT ![id].active = is_active],
                     Children(nodes, id), is_active)

update_active(nodes, id) ==
    IF id = <<>> THEN nodes
    ELSE IF \E c \in Children(nodes, id) : nodes[c].active
         THEN set_active(nodes, id, TRUE, TRUE)
         ELSE set_active(nodes, id, FALSE, TRUE)

(***************************************************************************)
(* The constructors: TestModule.__init__ registers the node with its       *)
(* parent; TestCase.__init__ and TestMethod.__init__ also make the parent  *)
(* recompute its active flag.                                              *)
(***************************************************************************)
NewTestModule(nodes, id) == Put(nodes, id, NewNode("TestModule"))
NewTestCase(nodes, id) == update_active(Put(nodes, id, NewNode("TestCase")), Parent(id))
NewTestMethod(nodes, id) == update_active(Put(nodes, id, NewNode("TestMethod")), Parent(id))

(***************************************************************************)
(* The path property: a TestModule directly under the Project is its name, *)
(* every other node is '%s.%s' % (parent.path, name); the Project's path   *)
(* is the empty string.                                                    *)
(***************************************************************************)
RECURSIVE path(_, _)
path(nodes, id) ==
    IF id = <<>> THEN <<"">>
    ELSE IF nodes[id].kind = "TestModule" /\ path(nodes, Parent(id)) = <<"">>
         THEN <<id[Len(id)]>>
         ELSE path(nodes, Parent(id)) \o <<id[Len(id)]>>

(***************************************************************************)
(* Project.confirm_exists(test_label, timestamp).  The result is           *)
(* [exc, nodes, node]: node is None for a label of fewer than two          *)
(* segments.  Looking a key up in a TestMethod (which is no dict) raises   *)
(* TypeError.                                                              *)
(***************************************************************************)
(* Where a result is handed on to the next step it is written              *)
(* CHOOSE r \in {F(v) : v \in {e}} : TRUE, which is F(e) with e computed    *)
(* once.                                                                   *)
RECURSIVE WalkModules(_, _, _)
WalkModules(nodes, parent, names) ==
    IF names = <<>> THEN [exc |-> "none", nodes |-> nodes, at |-> parent]
    ELSE IF parent # <<>> /\ nodes[parent].kind = "TestMethod"
         THEN [exc |-> "TypeError", nodes |-> nodes, at |-> parent]
         ELSE WalkModules(IF parent \o <<Head(names)>> \in DOMAIN nodes THEN nodes
                          ELSE NewTestModule(nodes, parent \o <<Head(names)>>),
                          parent \o <<Head(names)>>, Tail(names))

(* Variant for C13: a method node is constructed on every call. *)
ConfirmMethod_AlwaysNew(nodes, caseId, name, timestamp) ==
    IF nodes[caseId].kind = "TestMethod"
    THEN [exc |-> "TypeError", nodes |-> nodes, node |-> None]
    ELSE [exc |-> "none",
          nodes |-> [NewTestMethod(nodes, caseId \o <<name>>)
                     EXCEPT ![caseId \o <<name>>].timestamp = timestamp],
          node |-> Some(caseId \o <<name>>)]

ConfirmMethod(nodes, caseId, name, timestamp) ==
    IF nodes[caseId].kind = "TestMethod"
    THEN [exc |-> "TypeError", nodes |-> nodes, node |-> None]
    ELSE [exc |-> "none",
          nodes |-> [(IF caseId \o <<name>> \in DOMAIN nodes THEN nodes
                      ELSE NewTestMethod(nodes, caseId \o <<name>>))
                     EXCEPT ![caseId \o <<name>>].timestamp = timestamp],
          node |-> Some(caseId \o <<name>>)]

ConfirmCase(w, caseName, name, timestamp) ==
    IF w.exc # "none" THEN [exc |-> w.exc, nodes |-> w.nodes, node |-> None]
    ELSE IF w.at # <<>> /\ w.nodes[w.at].kind = "TestMethod"
    THEN [exc |-> "TypeError", nodes |-> w.nodes, node |-> None]
    ELSE CHOOSE r \in
            {ConfirmMethod(nodes, w.at \o <<caseName>>, name, timestamp) :
                nodes \in {IF w.at \o <<caseName>> \in DOMAIN w.nodes THEN w.nodes
                           ELSE NewTestCase(w.nodes, w.at \o <<caseName>>)}} : TRUE

confirm_exists(nodes, test_label, timestamp) ==
    IF Len(test_label) < 2 THEN [exc |-> "none", nodes |-> nodes, node |-> None]
    ELSE CHOOSE r \in
            {ConfirmCase(w, test_label[Len(test_label) - 1], test_label[Len(test_label)],
                         timestamp) :
                w \in {WalkModules(nodes, <<>>, SubSeq(test_label, 1, Len(test_label) - 2))}} :
            TRUE

(***************************************************************************)
(* TestMethod.set_result.                                                  *)
(***************************************************************************)
set_result(nodes, id, status, output, error, duration) ==
    [nodes EXCEPT ![id].result =
        Some([status |-> status, output |-> output, error |-> error,
              duration |-> duration])]

(***************************************************************************)
(* runner.py 229-244: the remaining-time estimate and its label.           *)
(* remaining_time = (total_count - completed_count) * total_duration /     *)
(* completed_count is kept as the fraction num / den (den > 0); int()      *)
(* truncates towards zero.                                                 *)
(***************************************************************************)
TruncDiv(a, b) == IF a >= 0 THEN a \div b ELSE -((-a) \div b)

Label(num, den) ==
    IF num > 4800 * den THEN [n |-> TruncDiv(num, 2400 * den), unit |-> " hours"]
    ELSE IF num > 2400 * den THEN [n |-> TruncDiv(num, 2400 * den), unit |-> " hour"]
    ELSE IF num > 120 * den THEN [n |-> TruncDiv(num, 60 * den), unit |-> " mins"]
    ELSE IF num > 60 * den THEN [n |-> TruncDiv(num, 60 * den), unit |-> " min"]
    ELSE [n |-> TruncDiv(num, den), unit |-> "s"]

Remaining(total, completed, total_duration) ==
    Label((total - completed) * total_duration, completed)

(***************************************************************************)
(* The state one call of Runner.poll works on: the Runner's fields, the    *)
(* project, the emitted events, and poll's locals `finished` and `post`    *)
(* (unbound = None).  ctl is "run" while the loop goes on, "return" after  *)
(* the early `return True`, "raise" once an exception propagates (exc).    *)
(* flushed is the record of every flush that reached test_end: the buffer  *)
(* it read and the result it stored.                                       *)
(***************************************************************************)
Raise(st, e) == [st EXCEPT !.ctl = "raise", !.exc = e]
Emit(st, ev) == [st EXCEPT !.events = Append(@, ev)]

(***************************************************************************)
(* runner.py 203-211: the loop over the sub-test lines buffer[1:].         *)
(* acc is [exc, status, error, post].                                      *)
(***************************************************************************)
(* Variant for C2: the status of the last sub-test wins. *)
SubtestStep_LastWins(acc, post, sub) ==
    IF sub.exc # "none" THEN [acc EXCEPT !.exc = sub.exc, !.post = Some(post)]
    ELSE [exc |-> "none",
          status |-> sub.status,
          error |-> IF sub.error # None /\ sub.error[1] # <<>>
                    THEN acc.error \o sub.error[1] \o <<"\n\n">>
                    ELSE acc.error,
          post |-> Some(post)]

SubtestStep(acc, post, sub) ==
    IF sub.exc # "none" THEN [acc EXCEPT !.exc = sub.exc, !.post = Some(post)]
    ELSE [exc |-> "none",
          status |-> IF sub.status > acc.status THEN sub.status ELSE acc.status,
          error |-> IF sub.error # None /\ sub.error[1] # <<>>
                    THEN acc.error \o sub.error[1] \o <<"\n\n">>
                    ELSE acc.error,
          post |-> Some(post)]

RECURSIVE SubtestLoop(_, _, _)
SubtestLoop(buffer, line_num, acc) ==
    IF line_num > Len(buffer) \/ acc.exc # "none" THEN acc
    ELSE IF ~IsJson(buffer[line_num]) THEN [acc EXCEPT !.exc = "ValueError"]
    ELSE SubtestLoop(buffer, line_num + 1,
            SubtestStep(acc, JsonLoads(buffer[line_num]),
                        parse_status_and_error(JsonLoads(buffer[line_num]))))

(***************************************************************************)
(* runner.py 195-211: status and error of the buffered record.  With       *)
(* exactly two lines the second is the lone finish frame; otherwise every  *)
(* line after the first is a sub-test result, and `post` keeps whatever it *)
(* held before when there is none.  The result is                          *)
(* [exc, status, error, post], error an optional text.                     *)
(***************************************************************************)
LoneResult(post, r) ==
    [exc |-> r.exc, status |-> r.status, error |-> r.error, post |-> Some(post)]
SubtestResult(r) ==
    [exc |-> r.exc, status |-> r.status, error |-> Some(r.error), post |-> r.post]

RecordStatus(buffer, post0) ==
    IF Len(buffer) = 2
    THEN IF ~IsJson(buffer[2])
         THEN [exc |-> "ValueError", status |-> 0, error |-> None, post |-> post0]
         ELSE LoneResult(JsonLoads(buffer[2]), parse_status_and_error(JsonLoads(buffer[2])))
    ELSE SubtestResult(SubtestLoop(buffer, 2,
            [exc |-> "none", status |-> STATUS_PASS, error |-> <<>>, post |-> post0]))

(***************************************************************************)
(* runner.py 192-262: a marker line while the buffer is a list: record the *)
(* buffered result.  State changed before a raising statement stays        *)
(* changed.                                                                *)
(***************************************************************************)
Counted(st) == [st EXCEPT !.completed_count = @ + 1]

(* Variant for C1: the end marker does not mark the run finished. *)
FlushEmit_NeverFinished(st, line, record, test, status, total_duration) ==
    [st EXCEPT
        !.flushed = Append(@, [buffer |-> record, test |-> test,
                               result |-> st.nodes[test].result[1]]),
        !.events = Append(@, [name |-> "test_end", test_path |-> path(st.nodes, test),
                              result |-> status,
                              remaining_time |-> Remaining(st.total_count,
                                                    st.completed_count, total_duration)]),
        !.current_test = None,
        !.buffer = IF line = END_TEST_RESULTS THEN None ELSE Some(<<>>)]

(* 250-262: test_end, and the decks cleared for the next test. *)
FlushEmit(st, line, record, test, status, total_duration) ==
    [st EXCEPT
        !.flushed = Append(@, [buffer |-> record, test |-> test,
                               result |-> st.nodes[test].result[1]]),
        !.events = Append(@, [name |-> "test_end", test_path |-> path(st.nodes, test),
                              result |-> status,
                              remaining_time |-> Remaining(st.total_count,
                                                    st.completed_count, total_duration)]),
        !.current_test = None,
        !.buffer = IF line = END_TEST_RESULTS THEN None ELSE Some(<<>>),
        !.finished = IF line = END_TEST_RESULTS THEN TRUE ELSE @]

(* 216-248: times, description, result, run start and the result counts. *)
FlushRecord(st, line, pre, post, status, error) ==
    FlushEmit(
        [st EXCEPT
            !.nodes = set_result([@ EXCEPT ![st.current_test[1]].description = post.description],
                                 st.current_test[1], status,
                                 IF Has(post, "output") THEN Some(post.output) ELSE None,
                                 error, post.end_time - pre.start_time),
            !.start_time = IF @ = None THEN Some(pre.start_time) ELSE @,
            !.result_count[status] = @ + 1],
        line, st.buffer[1], st.current_test[1], status,
        post.end_time - (IF st.start_time = None THEN pre.start_time ELSE st.start_time[1]))

(* 213-220: the count is increased before anything of `post` is read. *)
FlushParsed(st, line, pre, r) ==
    IF r.exc # "none" THEN Raise(st, r.exc)
    ELSE IF ~Has(pre, "start_time") THEN Raise(Counted(st), "KeyError")
    ELSE IF r.post = None THEN Raise(Counted(st), "UnboundLocalError")
    ELSE IF ~Has(r.post[1], "end_time") \/ ~Has(r.post[1], "description")
    THEN Raise(Counted(st), "KeyError")
    ELSE IF st.current_test = None THEN Raise(Counted(st), "AttributeError")
    ELSE FlushRecord([Counted(st) EXCEPT !.post = r.post], line, pre, r.post[1],
                     r.status, r.error)

Flush(st, line) ==
    IF st.buffer[1] = <<>> THEN Raise(st, "IndexError")
    ELSE IF ~IsJson(st.buffer[1][1]) THEN Raise(st, "ValueError")
    ELSE CHOOSE r \in {FlushParsed(st, line, JsonLoads(st.buffer[1][1]), status) :
                           status \in {RecordStatus(st.buffer[1], st.post)}} : TRUE

(***************************************************************************)
(* runner.py 264-290: a line that is no marker.                            *)
(***************************************************************************)
(* 289-290 *)
StartTest(st, test_path, ce) ==
    IF ce.exc # "none" THEN Raise([st EXCEPT !.nodes = ce.nodes], ce.exc)
    ELSE Emit([st EXCEPT !.nodes = ce.nodes, !.current_test = ce.node],
              [name |-> "test_start", test_path |-> test_path])

(* Variant for C27: the malformed start frame announces 'suite_end'. *)
Appended_SuiteEnd(st, line) ==
    IF st.current_test # None THEN st
    ELSE IF ~IsJson(line)
    THEN [Emit(st, [name |-> "suite_end"]) EXCEPT !.ctl = "return"]
    ELSE IF ~Has(JsonLoads(line), "path") THEN Raise(st, "KeyError")
    ELSE CHOOSE r \in {StartTest(st, JsonLoads(line).path, ce) :
                           ce \in {confirm_exists(st.nodes, JsonLoads(line).path, None)}} : TRUE

(* 282-288 *)
Appended(st, line) ==
    IF st.current_test # None THEN st
    ELSE IF ~IsJson(line)
    THEN [Emit(st, [name |-> "suit_end"]) EXCEPT !.ctl = "return"]
    ELSE IF ~Has(JsonLoads(line), "path") THEN Raise(st, "KeyError")
    ELSE CHOOSE r \in {StartTest(st, JsonLoads(line).path, ce) :
                           ce \in {confirm_exists(st.nodes, JsonLoads(line).path, None)}} : TRUE

(* Variant for C10: a preamble line is dropped instead of forwarded. *)
Content_PreambleDropped(st, line) ==
    IF st.buffer = None
    THEN st
    ELSE Appended([st EXCEPT !.buffer = Some(Append(@[1], StripEscape(line)))],
                  StripEscape(line))

Content(st, line) ==
    IF st.buffer = None
    THEN Emit(st, [name |-> "test_status_update", update |-> line])
    ELSE Appended([st EXCEPT !.buffer = Some(Append(@[1], StripEscape(line)))],
                  StripEscape(line))

(***************************************************************************)
(* runner.py 182-290: one iteration of `for line in lines`, and the loop.  *)
(***************************************************************************)
ProcessLine(st, line) ==
    IF line \in Markers
    THEN IF st.buffer = None THEN [st EXCEPT !.buffer = Some(<<>>)]
         ELSE Flush(st, line)
    ELSE Content(st, line)

RECURSIVE ProcessLines(_, _)
ProcessLines(st, lines) ==
    IF lines = <<>> \/ st.ctl # "run" THEN st
    ELSE CHOOSE r \in {ProcessLines(next, Tail(lines)) :
                           next \in {ProcessLine(st, Head(lines))}} : TRUE

(***************************************************************************)
(* '\n'.join(self.error_buffer).                                           *)
(***************************************************************************)
RECURSIVE JoinLines(_)
JoinLines(xs) ==
    IF Len(xs) = 0 THEN <<>>
    ELSE IF Len(xs) = 1 THEN <<xs[1]>>
    ELSE <<xs[1], "\n">> \o JoinLines(Tail(xs))

(* Variant for C3: an exited child is not noticed. *)
Finish_IgnoresExit(st, has_stopped) ==
    IF st.ctl = "raise" THEN [st EXCEPT !.ret = st.exc]
    ELSE IF st.ctl = "return" THEN [st EXCEPT !.ret = "True"]
    ELSE IF st.finished
    THEN [(IF st.error_buffer # <<>>
           THEN Emit(st, [name |-> "suite_end", error |-> JoinLines(st.error_buffer)])
           ELSE Emit(st, [name |-> "suite_end"])) EXCEPT !.ret = "False"]
    ELSE [st EXCEPT !.ret = "True"]

(* Variant for C4: suite_error always carries the generic message. *)
Finish_GenericError(st, has_stopped) ==
    IF st.ctl = "raise" THEN [st EXCEPT !.ret = st.exc]
    ELSE IF st.ctl = "return" THEN [st EXCEPT !.ret = "True"]
    ELSE IF st.finished
    THEN [(IF st.error_buffer # <<>>
           THEN Emit(st, [name |-> "suite_end", error |-> JoinLines(st.error_buffer)])
           ELSE Emit(st, [name |-> "suite_end"])) EXCEPT !.ret = "False"]
    ELSE IF has_stopped
    THEN [Emit(st, [name |-> "suite_error",
                    error |-> <<"Test output ended unexpectedly">>])
          EXCEPT !.ret = "False"]
    ELSE [st EXCEPT !.ret = "True"]

(* Variant for C9: the exit of the child is looked at before `finished`. *)
Finish_StoppedFirst(st, has_stopped) ==
    IF st.ctl = "raise" THEN [st EXCEPT !.ret = st.exc]
    ELSE IF st.ctl = "return" THEN [st EXCEPT !.ret = "True"]
    ELSE IF has_stopped
    THEN [(IF st.error_buffer # <<>>
           THEN Emit(st, [name |-> "suite_error", error |-> JoinLines(st.error_buffer)])
           ELSE Emit(st, [name |-> "suite_error",
                          error |-> <<"Test output ended unexpectedly">>]))
          EXCEPT !.ret = "False"]
    ELSE IF st.finished
    THEN [(IF st.error_buffer # <<>>
           THEN Emit(st, [name |-> "suite_end", error |-> JoinLines(st.error_buffer)])
           ELSE Emit(st, [name |-> "suite_end"])) EXCEPT !.ret = "False"]
    ELSE [st EXCEPT !.ret = "True"]

(* Variant for C24: a child that stopped without stderr output is polled on. *)
Finish_QuietStop(st, has_stopped) ==
    IF st.ctl = "raise" THEN [st EXCEPT !.ret = st.exc]
    ELSE IF st.ctl = "return" THEN [st EXCEPT !.ret = "True"]
    ELSE IF st.finished
    THEN [(IF st.error_buffer # <<>>
           THEN Emit(st, [name |-> "suite_end", error |-> JoinLines(st.error_buffer)])
           ELSE Emit(st, [name |-> "suite_end"])) EXCEPT !.ret = "False"]
    ELSE IF has_stopped /\ st.error_buffer # <<>>
    THEN [Emit(st, [name |-> "suite_error", error |-> JoinLines(st.error_buffer)])
          EXCEPT !.ret = "False"]
    ELSE [st EXCEPT !.ret = "True"]

(***************************************************************************)
(* runner.py 291-311: the end of poll.  ret is what the call did: "True"   *)
(* or "False" for the value returned, or the name of the exception.        *)
(***************************************************************************)
Finish(st, has_stopped) ==
    IF st.ctl = "raise" THEN [st EXCEPT !.ret = st.exc]
    ELSE IF st.ctl = "return" THEN [st EXCEPT !.ret = "True"]
    ELSE IF st.finished
    THEN [(IF st.error_buffer # <<>>
           THEN Emit(st, [name |-> "suite_end", error |-> JoinLines(st.error_buffer)])
           ELSE Emit(st, [name |-> "suite_end"])) EXCEPT !.ret = "False"]
    ELSE IF has_stopped
    THEN [(IF st.error_buffer # <<>>
           THEN Emit(st, [name |-> "suite_error", error |-> JoinLines(st.error_buffer)])
           ELSE Emit(st, [name |-> "suite_error",
                          error |-> <<"Test output ended unexpectedly">>]))
          EXCEPT !.ret = "False"]
    ELSE [st EXCEPT !.ret = "True"]

(***************************************************************************)
(* The lines the child process of the model may write.                     *)
(***************************************************************************)
StartFrame(p) == [t |-> "obj", o |-> [path |-> p, start_time |-> 1]]
FinishOK ==
    [t |-> "obj", o |-> [status |-> "OK", end_time |-> 2,
                         description |-> <<"d">>, output |-> <<>>]]
Banner == [t |-> "raw", s |-> "banner"]
Lines == Markers \cup {StartFrame(<<"m", "C", "t1">>), FinishOK, Banner}
ErrLine(k) == IF k = 1 THEN "e1" ELSE IF k = 2 THEN "e2" ELSE "e3"
Statuses ==
    {STATUS_PASS, STATUS_SKIP, STATUS_EXPECTED_FAIL,
     STATUS_UNEXPECTED_SUCCESS, STATUS_FAIL, STATUS_ERROR}

(***************************************************************************)
(* State.  enc is the encoder inside the child (PipedTestResult's _first    *)
(* and _current_test, and whether PipedTestRunner.run has written the end  *)
(* marker).  child_stdout and child_stderr are everything the child has    *)
(* written to its two pipes; rd_stdout and rd_stderr count the lines the   *)
(* reader threads have taken from them; stdout and stderr are the queues.  *)
(* The remaining variables are the Runner's fields, the project tree, the  *)
(* events emitted by the Runner, the flush record, and what the last call  *)
(* of poll did: its locals `stopped` and `finished`, and ret.  consumed is *)
(* every line the calls of poll have taken from the stdout queue, in the   *)
(* order they were taken (for stderr that is error_buffer itself).         *)
(* clock is the time datetime.now() reads, one tick for every operation    *)
(* called on the hierarchy from outside the Runner, and last is the latest *)
(* of these operations, with its arguments and how it ended.               *)
(* _events is EventSource._events, the one table of handlers all classes   *)
(* share; bindings is every call of bind in the order it was made, and     *)
(* emitted is what the latest call of bind or emit did.  terminated says    *)
(* that Runner.terminate has been called, and closed holds the pipes whose *)
(* reader thread has read end-of-stream, closed the pipe and ended.        *)
(* engine is the test engine inside the child: how many tests it has run   *)
(* and where it is in the one it is running.                               *)
(***************************************************************************)
VARIABLES enc, child_stdout, child_stderr, exited, rd_stdout, rd_stderr,
          stdout, stderr, buffer, current_test, error_buffer, start_time,
          total_count, completed_count, result_count, project, events,
          flushed, stopped, finished, ret, consumed, clock, last,
          _events, bindings, emitted, terminated, closed, engine

vars == <<enc, child_stdout, child_stderr, exited, rd_stdout, rd_stderr,
          stdout, stderr, buffer, current_test, error_buffer, start_time,
          total_count, completed_count, result_count, project, events,
          flushed, stopped, finished, ret, consumed, clock, last,
          _events, bindings, emitted, terminated, closed, engine>>

childVars == <<enc, child_stdout, child_stderr, exited>>
readerVars == <<rd_stdout, rd_stderr, stdout, stderr>>
runnerVars == <<buffer, current_test, error_buffer, start_time, total_count,
                completed_count, result_count, project, events, flushed,
                stopped, finished, ret, consumed>>
eventVars == <<_events, bindings, emitted>>
termVars == <<terminated, closed>>
modelVars == <<clock, last, eventVars, termVars, engine>>

MaxTotal == 2

(* the record of an operation on the hierarchy: NoOp before the first one *)
ModelOp(op, label, node, value, test_list, exc, result) ==
    [op |-> op, label |-> label, node |-> node, value |-> value,
     test_list |-> test_list, exc |-> exc, ret |-> result]
NoOp == ModelOp("none", <<>>, <<>>, FALSE, {}, "none", None)

(* the record of a call on an EventSource: NoEmit before the first one *)
EventOp(op, cls, event, called, exc) ==
    [op |-> op, cls |-> cls, event |-> event, called |-> called, exc |-> exc]
NoEmit == EventOp("none", "", "", <<>>, "none")

(***************************************************************************)
(* Runner.__init__: the child is started, both queues are empty, the       *)
(* decoder is in its preamble.                                             *)
(***************************************************************************)
Init ==
    /\ enc = [first |-> TRUE, current_test |-> None, done |-> FALSE]
    /\ child_stdout = <<>>
    /\ child_stderr = <<>>
    /\ exited = FALSE
    /\ rd_stdout = 0
    /\ rd_stderr = 0
    /\ stdout = <<>>
    /\ stderr = <<>>
    /\ buffer = None
    /\ current_test = None
    /\ error_buffer = <<>>
    /\ start_time = None
    /\ total_count = MaxTotal
    /\ completed_count = 0
    /\ result_count = [s \in Statuses |-> 0]
    /\ project = <<>>
    /\ events = <<>>
    /\ flushed = <<>>
    /\ stopped = FALSE
    /\ finished = FALSE
    /\ ret = "init"
    /\ consumed = <<>>
    /\ clock = 0
    /\ last = NoOp
    /\ _events = <<>>
    /\ bindings = <<>>
    /\ emitted = NoEmit
    /\ terminated = FALSE
    /\ closed = {}
    /\ engine = [ran |-> 0, phase |-> "idle"]

(***************************************************************************)
(* The child process: it writes a line to stdout or to stderr, or exits.   *)
(***************************************************************************)
ChildWrite ==
    /\ ~exited
    /\ Len(child_stdout) < MaxLines
    /\ \E line \in Lines : child_stdout' = Append(child_stdout, line)
    /\ UNCHANGED <<enc, child_stderr, exited, readerVars, runnerVars, modelVars>>

(***************************************************************************)
(* The child that crashes after the start marker and one start frame.      *)
(***************************************************************************)
CrashStream == <<START_TEST_RESULTS, StartFrame(<<"m", "C", "t1">>)>>
ChildWriteCrash ==
    /\ ~exited
    /\ Len(child_stdout) < Len(CrashStream)
    /\ child_stdout' = Append(child_stdout, CrashStream[Len(child_stdout) + 1])
    /\ UNCHANGED <<enc, child_stderr, exited, readerVars, runnerVars, modelVars>>

ChildWriteErr ==
    /\ ~exited
    /\ Len(child_stderr) < MaxErr
    /\ child_stderr' = Append(child_stderr, ErrLine(Len(child_stderr) + 1))
    /\ UNCHANGED <<enc, child_stdout, exited, readerVars, runnerVars, modelVars>>

ChildExit ==
    /\ ~exited
    /\ exited' = TRUE
    /\ UNCHANGED <<enc, child_stdout, child_stderr, readerVars, runnerVars, modelVars>>

(***************************************************************************)
(* pipes.py: the encoder inside the child.  The test engine calls the      *)
(* callbacks of PipedTestResult; each writes its lines and flushes.  The   *)
(* clock reads 1 when a test starts and 2 when a result is added; the      *)
(* description is "d", the captured output is empty, a traceback is "tb"   *)
(* and a skip reason is "why".                                             *)
(***************************************************************************)
MaxEncLines == 4
Tests == {<<"m", "C", "t1">>}

FinishFrame(status) ==
    [t |-> "obj", o |-> [status |-> status, end_time |-> 2,
                         description |-> <<"d">>, output |-> <<>>]]
FinishFrameErr(status, error) ==
    [t |-> "obj", o |-> [status |-> status, end_time |-> 2,
                         description |-> <<"d">>, error |-> error, output |-> <<>>]]

(* startTest 103-113: the marker and the start frame *)
StartLines(test) ==
    <<IF enc.first THEN START_TEST_RESULTS ELSE RESULT_SEPARATOR, StartFrame(test)>>

EncWrite(lines, current) ==
    /\ ~exited
    /\ ~enc.done
    /\ Len(child_stdout) + Len(lines) <= MaxEncLines
    /\ child_stdout' = child_stdout \o lines
    /\ enc' = [enc EXCEPT !.current_test = current,
                          !.first = IF lines[1] \in Markers THEN FALSE ELSE @]
    /\ UNCHANGED <<child_stderr, exited, readerVars, runnerVars, modelVars>>

startTest == \E test \in Tests : EncWrite(StartLines(test), Some(test))

addSuccess == EncWrite(<<FinishFrame("OK")>>, None)

(* addError 141-142: without a current test the start lines come first *)
addError ==
    \E test \in Tests :
        EncWrite((IF enc.current_test = None THEN StartLines(test) ELSE <<>>)
                    \o <<FinishFrameErr("E", <<"tb">>)>>, None)

addFailure == EncWrite(<<FinishFrameErr("F", <<"tb">>)>>, None)

addSubTest ==
    \/ EncWrite(<<FinishFrame("OK")>>, enc.current_test)
    \/ EncWrite(<<FinishFrameErr("F", <<"tb">>)>>, enc.current_test)
    \/ EncWrite(<<FinishFrameErr("E", <<"tb">>)>>, enc.current_test)

addSkip == EncWrite(<<FinishFrameErr("s", <<"why">>)>>, None)

addExpectedFailure == EncWrite(<<FinishFrameErr("x", <<"tb">>)>>, None)

addUnexpectedSuccess == EncWrite(<<FinishFrame("u")>>, None)

(* PipedTestRunner.run 300-302: the end marker *)
run ==
    /\ ~exited
    /\ ~enc.done
    /\ child_stdout' = Append(child_stdout, END_TEST_RESULTS)
    /\ enc' = [enc EXCEPT !.done = TRUE]
    /\ UNCHANGED <<child_stderr, exited, readerVars, runnerVars, modelVars>>

(***************************************************************************)
(* enqueue_output: a reader thread takes the next line of its pipe and     *)
(* puts it on its queue.                                                   *)
(***************************************************************************)
enqueue_stdout_Lifo ==
    /\ rd_stdout < Len(child_stdout)
    /\ stdout' = <<child_stdout[rd_stdout + 1]>> \o stdout
    /\ rd_stdout' = rd_stdout + 1
    /\ UNCHANGED <<childVars, rd_stderr, stderr, runnerVars, modelVars>>

enqueue_stdout ==
    /\ rd_stdout < Len(child_stdout)
    /\ stdout' = Append(stdout, child_stdout[rd_stdout + 1])
    /\ rd_stdout' = rd_stdout + 1
    /\ UNCHANGED <<childVars, rd_stderr, stderr, runnerVars, modelVars>>

enqueue_stderr ==
    /\ rd_stderr < Len(child_stderr)
    /\ stderr' = Append(stderr, child_stderr[rd_stderr + 1])
    /\ rd_stderr' = rd_stderr + 1
    /\ UNCHANGED <<childVars, rd_stdout, stdout, runnerVars, modelVars>>

(***************************************************************************)
(* Runner.poll: PollCall is one call; Poll is the call made as long as the  *)
(* last call returned True.                                                *)
(***************************************************************************)
(* Variant for C25: every call starts with an empty error buffer. *)
PollState_FreshErrors ==
    [buffer |-> buffer, current_test |-> current_test,
     error_buffer |-> stderr, start_time |-> start_time,
     total_count |-> total_count, completed_count |-> completed_count,
     result_count |-> result_count, nodes |-> project, events |-> events,
     flushed |-> flushed, finished |-> FALSE, post |-> None,
     ctl |-> "run", exc |-> "none", ret |-> ret]

PollState ==
    [buffer |-> buffer, current_test |-> current_test,
     error_buffer |-> error_buffer \o stderr, start_time |-> start_time,
     total_count |-> total_count, completed_count |-> completed_count,
     result_count |-> result_count, nodes |-> project, events |-> events,
     flushed |-> flushed, finished |-> FALSE, post |-> None,
     ctl |-> "run", exc |-> "none", ret |-> ret]

PollResult ==
    CHOOSE r \in {Finish(st, exited) : st \in {ProcessLines(PollState, stdout)}} : TRUE

PollCall ==
    /\ \E st \in {PollResult} :
          /\ buffer' = st.buffer
          /\ current_test' = st.current_test
          /\ error_buffer' = st.error_buffer
          /\ start_time' = st.start_time
          /\ completed_count' = st.completed_count
          /\ result_count' = st.result_count
          /\ project' = st.nodes
          /\ events' = st.events
          /\ flushed' = st.flushed
          /\ finished' = st.finished
          /\ ret' = st.ret
    /\ stopped' = exited
    /\ consumed' = consumed \o stdout
    /\ stdout' = <<>>
    /\ stderr' = <<>>
    /\ UNCHANGED <<childVars, rd_stdout, rd_stderr, total_count, modelVars>>

Poll ==
    /\ ret \in {"init", "True"}
    /\ PollCall

Next ==
    \/ ChildWrite
    \/ ChildWriteErr
    \/ ChildExit
    \/ enqueue_stdout
    \/ enqueue_stderr
    \/ Poll

Spec == Init /\ [][Next]_vars

(***************************************************************************)
(* The child running the encoder: the engine calls the callbacks in any    *)
(* order, then run() ends the stream and the child exits.                  *)
(***************************************************************************)
NextFrames ==
    \/ startTest
    \/ addSuccess
    \/ addError
    \/ addFailure
    \/ addSubTest
    \/ addSkip
    \/ addExpectedFailure
    \/ addUnexpectedSuccess
    \/ run
    \/ (enc.done /\ ChildExit)
    \/ enqueue_stdout
    \/ Poll

SpecFrames == Init /\ [][NextFrames]_vars

(***************************************************************************)
(* The lines poll has taken from the stdout queue so far.                  *)
(***************************************************************************)
Taken == SubSeq(child_stdout, 1, rd_stdout - Len(stdout))

(***************************************************************************)
(* Vocabulary of the properties.                                           *)
(***************************************************************************)
Last(seq) == seq[Len(seq)]
EventNames == [i \in DOMAIN events |-> events[i].name]
Raised == ret \notin {"init", "True", "False"}
T1 == <<"m", "C", "t1">>
HappyStream == <<START_TEST_RESULTS, StartFrame(T1), FinishOK, END_TEST_RESULTS>>
TakenHas(line) == \E i \in DOMAIN Taken : Taken[i] = line
NoCounts == [s \in Statuses |-> 0]

(* text is '\n'.join(xs) for a non-empty list xs *)
IsJoinOf(text, xs) ==
    /\ Len(text) = 2 * Len(xs) - 1
    /\ \A i \in DOMAIN xs : text[2 * i - 1] = xs[i]
    /\ \A i \in 1..(Len(xs) - 1) : text[2 * i] = "\n"

(***************************************************************************)
(* C1.  Once the polls have taken exactly the lines STX, start frame of    *)
(* m.C.t1, finish frame OK, ETX from stdout and nothing from stderr, in    *)
(* however many polls, the events emitted are exactly test_start(m.C.t1),  *)
(* test_end(m.C.t1, PASS), suite_end without error: no other event, no     *)
(* suite_error, and polling has stopped.                                   *)
(***************************************************************************)
C1_HappyStream ==
    (Taken = HappyStream /\ error_buffer = <<>>) =>
        /\ ret = "False"
        /\ Len(events) = 3
        /\ events[1] = [name |-> "test_start", test_path |-> T1]
        /\ events[2].name = "test_end"
        /\ events[2].test_path = T1
        /\ events[2].result = STATUS_PASS
        /\ events[3] = [name |-> "suite_end"]

C1_Witness ==
    /\ Taken = HappyStream
    /\ error_buffer = <<>>
    /\ EventNames = <<"test_start", "test_end", "suite_end">>

(***************************************************************************)
(* C2.  Every flush of a record made of a start frame and one or more      *)
(* well-formed finish frames stores on the test node, and emits in its     *)
(* test_end event, the largest status code among its finish frames, where  *)
(* OK is PASS 100, s SKIP 200, x EXPECTED_FAIL 300, u UNEXPECTED_SUCCESS   *)
(* 400, F FAIL 500 and E ERROR 600; so PASS when no frame reports more.    *)
(***************************************************************************)
StatusCode(c) ==
    IF c = "OK" THEN 100 ELSE IF c = "s" THEN 200 ELSE IF c = "x" THEN 300
    ELSE IF c = "u" THEN 400 ELSE IF c = "F" THEN 500 ELSE 600

IsStartFrame(line) ==
    line.t = "obj" /\ DOMAIN line.o = {"path", "start_time"}
IsFinishFrame(line) ==
    /\ line.t = "obj"
    /\ {"status", "end_time", "description", "output"} \subseteq DOMAIN line.o
    /\ DOMAIN line.o \subseteq {"status", "end_time", "description", "output", "error"}
    /\ line.o.status \in {"OK", "s", "x", "u", "F", "E"}
    /\ line.o.status \in {"s", "x", "F", "E"} => "error" \in DOMAIN line.o
WellFormedRecord(record) ==
    /\ Len(record) >= 2
    /\ IsStartFrame(record[1])
    /\ \A i \in 2..Len(record) : IsFinishFrame(record[i])
MaxStatus(record) ==
    CHOOSE m \in {StatusCode(record[i].o.status) : i \in 2..Len(record)} :
        \A i \in 2..Len(record) : StatusCode(record[i].o.status) <= m
TestEnds == SelectSeq(events, LAMBDA e : e.name = "test_end")

C2_MaxSeverity ==
    /\ Len(TestEnds) = Len(flushed)
    /\ \A i \in DOMAIN flushed :
          WellFormedRecord(flushed[i].buffer) =>
              /\ flushed[i].result.status = MaxStatus(flushed[i].buffer)
              /\ TestEnds[i].result = MaxStatus(flushed[i].buffer)

C2_Witness ==
    \E i \in DOMAIN flushed :
        /\ WellFormedRecord(flushed[i].buffer)
        /\ Len(flushed[i].buffer) = 3
        /\ flushed[i].buffer[2].o.status = "F"
        /\ flushed[i].buffer[3].o.status = "OK"
        /\ TestEnds[i].result = STATUS_FAIL

C5_NoFinishFrameIsNoOp ==
    (\E m \in Markers : Taken = <<START_TEST_RESULTS, StartFrame(T1), m>>) =>
        /\ ~Raised
        /\ completed_count = 0
        /\ result_count = NoCounts
        /\ flushed = <<>>

(***************************************************************************)
(* C6.  After the polls have taken STX and then a line that is not JSON    *)
(* where a start frame is expected, the run is aborted: the last event is  *)
(* suite_end, polling has stopped, and no poll has raised.                 *)
(***************************************************************************)
C6_MalformedStartAborts ==
    (Taken = <<START_TEST_RESULTS, Banner>>) =>
        /\ ~Raised
        /\ ret = "False"
        /\ events # <<>>
        /\ Last(events).name = "suite_end"

(***************************************************************************)
(* C7.  No call of poll raises, whatever lines arrive and however they are *)
(* split over the polls.                                                   *)
(***************************************************************************)
C7_PollNeverRaises == ~Raised

(***************************************************************************)
(* C8.  Once a poll has read ETX from stdout, whatever the decoder's state *)
(* was, the run is finished: suite_end was emitted last and polling has    *)
(* stopped.                                                                *)
(***************************************************************************)
C8_EtxEndsRun ==
    TakenHas(END_TEST_RESULTS) =>
        /\ ret = "False"
        /\ events # <<>>
        /\ Last(events).name = "suite_end"

Updates == SelectSeq(events, LAMBDA e : e.name # "suite_error")
PreambleStep(k) ==
    \A st \in {ProcessLines(PollState, SubSeq(stdout, 1, k))} :
        ProcessLine(st, stdout[k + 1]) =
            Emit(st, [name |-> "test_status_update", update |-> stdout[k + 1]])

C10_PreambleForwards ==
    /\ (\A i \in DOMAIN Taken : Taken[i] \notin Markers) =>
          /\ Updates = [i \in DOMAIN Taken |->
                          [name |-> "test_status_update", update |-> Taken[i]]]
          /\ buffer = None
          /\ current_test = None
          /\ completed_count = 0
          /\ result_count = NoCounts
          /\ project = <<>>
    /\ \A k \in 0..(Len(stdout) - 1) :
          stdout[k + 1] \notin Markers =>
              \A st \in {ProcessLines(PollState, SubSeq(stdout, 1, k))} :
                  (st.ctl = "run" /\ st.buffer = None) => PreambleStep(k)

C10_Witness ==
    /\ Len(Taken) >= 2
    /\ \A i \in DOMAIN Taken : Taken[i] \notin Markers
    /\ Taken[1] # Taken[2]
    /\ Len(Updates) = Len(Taken)

(***************************************************************************)
(* The crashing child, with the scheduling the code relies on: poll is     *)
(* called again and again while it returns True, and each reader thread    *)
(* keeps reading its pipe.                                                 *)
(***************************************************************************)
NextCrash ==
    \/ ChildWriteCrash
    \/ ChildWriteErr
    \/ ChildExit
    \/ enqueue_stdout
    \/ enqueue_stderr
    \/ Poll

CrashSpec ==
    /\ Init
    /\ [][NextCrash]_vars
    /\ WF_vars(Poll)
    /\ WF_vars(enqueue_stdout)
    /\ WF_vars(enqueue_stderr)

(***************************************************************************)
(* C3.  If the child has exited after writing only STX and one start       *)
(* frame to stdout, then eventually a poll has emitted suite_error as the  *)
(* last event and returned False.                                          *)
(***************************************************************************)
CrashReported ==
    /\ ret = "False"
    /\ events # <<>>
    /\ Last(events).name = "suite_error"

C3_CrashIsReported == (exited /\ child_stdout = CrashStream) ~> CrashReported

C3_Witness ==
    /\ exited
    /\ child_stdout = CrashStream
    /\ CrashReported
    /\ Taken = CrashStream

(***************************************************************************)
(* C11.  For each output stream the decoder consumes the lines in the      *)
(* order the child wrote them, each line once: under every interleaving of *)
(* the child, the two reader threads and poll, the lines the polls have    *)
(* taken from the stdout queue (consumed) followed by the lines still in   *)
(* the queue are exactly the lines the stdout reader has read, a prefix of *)
(* what the child wrote; and likewise error_buffer, the stderr queue and   *)
(* the child's stderr.                                                     *)
(***************************************************************************)
IsPrefix(a, b) == Len(a) <= Len(b) /\ SubSeq(b, 1, Len(a)) = a

PathLines == Lines \cup {StartFrame(<<"C", "t1">>)}

ChildWritePath ==
    /\ ~exited
    /\ Len(child_stdout) < MaxLines
    /\ \E line \in PathLines : child_stdout' = Append(child_stdout, line)
    /\ UNCHANGED <<enc, child_stderr, exited, readerVars, runnerVars, modelVars>>

NextPaths ==
    \/ ChildWritePath
    \/ ChildWriteErr
    \/ ChildExit
    \/ enqueue_stdout
    \/ enqueue_stderr
    \/ Poll

SpecPaths == Init /\ [][NextPaths]_vars

(***************************************************************************)
(* C12.  Over any run test_start and test_end strictly alternate,          *)
(* beginning with test_start: in the sequence of the test_start and        *)
(* test_end events emitted so far the odd positions are test_start, the    *)
(* even positions are test_end, and each test_end carries the test_path of *)
(* the test_start right before it.                                         *)
(***************************************************************************)
TestEvents == SelectSeq(events, LAMBDA e : e.name \in {"test_start", "test_end"})

C12_StartEndAlternate ==
    \A i \in DOMAIN TestEvents :
        IF i % 2 = 1
        THEN TestEvents[i].name = "test_start"
        ELSE /\ TestEvents[i].name = "test_end"
             /\ TestEvents[i].test_path = TestEvents[i - 1].test_path

(***************************************************************************)
(* model.py: Project.refresh and the _purge sweep.  A pop removes one key  *)
(* of a dict; a container is popped only when it is empty.                 *)
(***************************************************************************)
Remove(nodes, gone) == [c \in DOMAIN nodes \ gone |-> nodes[c]]

(* TestCase._purge, where dict.items() is a list (Python 2) *)
CasePurge(nodes, id, timestamp) ==
    Remove(nodes, {c \in Children(nodes, id) : nodes[c].timestamp # timestamp})

(* 407-409 and 527-528: `if len(testModule) == 0: self.pop(...)` *)
PopIfEmpty(nodes, id) ==
    IF Children(nodes, id) = {} THEN Remove(nodes, {id}) ELSE nodes

(* TestModule._purge, and the loop of Project.refresh, in Python 2 *)
RECURSIVE purge(_, _, _)
RECURSIVE PurgeEach(_, _, _)
PurgeEach(nodes, todo, timestamp) ==
    IF todo = {} THEN nodes
    ELSE LET c == CHOOSE x \in todo : TRUE
         IN PurgeEach(PopIfEmpty(purge(nodes, c, timestamp), c), todo \ {c}, timestamp)

purge(nodes, id, timestamp) ==
    IF nodes[id].kind = "TestCase" THEN CasePurge(nodes, id, timestamp)
    ELSE PurgeEach(nodes, Children(nodes, id), timestamp)

(***************************************************************************)
(* Where dict.items() is a view (Python 3) the first pop inside a loop     *)
(* over the items makes the loop raise RuntimeError ("dictionary changed   *)
(* size during iteration"), which leaves refresh.  Which key is popped     *)
(* first depends on the iteration order of the dicts: any method with      *)
(* another timestamp and any container that is already empty can be it.   *)
(***************************************************************************)
FirstPops(nodes, timestamp) ==
    {c \in DOMAIN nodes :
        IF nodes[c].kind = "TestMethod"
        THEN nodes[c].timestamp # timestamp
        ELSE Children(nodes, c) = {}}

(* 522-523: confirm_exists for every label of test_list *)
RECURSIVE ConfirmAll(_, _, _)
ConfirmAll(r, todo, timestamp) ==
    IF todo = {} \/ r.exc # "none" THEN r
    ELSE LET test_label == CHOOSE x \in todo : TRUE
         IN ConfirmAll(confirm_exists(r.nodes, test_label, timestamp),
                       todo \ {test_label}, timestamp)

(***************************************************************************)
(* The operations of the hierarchy as the application calls them, on the   *)
(* tree of the Runner's project.  Labels name tests at several depths: a   *)
(* bare name, a case directly under the Project, and cases in a module and *)
(* in two sub-modules.                                                     *)
(***************************************************************************)
MaxClock == 5
ModelLabels ==
    {<<"x">>, <<"C", "t1">>, <<"m", "C", "t1">>,
     <<"m", "n", "E", "t1">>, <<"m", "p", "F", "t1">>}
TestLists == SUBSET {<<"C", "t1">>, <<"m", "C", "t1">>}

pollVars == <<buffer, current_test, error_buffer, start_time, total_count,
              completed_count, result_count, events, flushed, stopped,
              finished, ret, consumed>>

ConfirmExists ==
    /\ clock < MaxClock
    /\ clock' = clock + 1
    /\ \E test_label \in ModelLabels :
         \E c \in {confirm_exists(project, test_label, None)} :
            /\ project' = c.nodes
            /\ last' = ModelOp("confirm_exists", test_label, <<>>, FALSE, {}, c.exc, c.node)
    /\ UNCHANGED <<childVars, readerVars, pollVars, eventVars, termVars, engine>>

SetActive ==
    /\ clock < MaxClock
    /\ clock' = clock + 1
    /\ \E id \in DOMAIN project, is_active \in BOOLEAN :
         /\ project' = set_active(project, id, is_active, TRUE)
         /\ last' = ModelOp("set_active", <<>>, id, is_active, {}, "none", None)
    /\ UNCHANGED <<childVars, readerVars, pollVars, eventVars, termVars, engine>>

ToggleActive ==
    /\ clock < MaxClock
    /\ clock' = clock + 1
    /\ \E id \in DOMAIN project :
         /\ project' = set_active(project, id, ~project[id].active, TRUE)
         /\ last' = ModelOp("toggle_active", <<>>, id, ~project[id].active, {}, "none", None)
    /\ UNCHANGED <<childVars, readerVars, pollVars, eventVars, termVars, engine>>

(* Project.refresh: the labels confirmed with the new timestamp, then the  *)
(* sweep; it ends normally, or by the RuntimeError of the first pop.       *)
Refresh ==
    /\ clock < MaxClock
    /\ clock' = clock + 1
    /\ \E test_list \in TestLists :
         \E c \in {ConfirmAll([exc |-> "none", nodes |-> project, node |-> None],
                              test_list, Some(clock + 1))} :
            \/ /\ project' = IF c.exc = "none"
                             THEN PurgeEach(c.nodes, Children(c.nodes, <<>>), Some(clock + 1))
                             ELSE c.nodes
               /\ last' = ModelOp("refresh", <<>>, <<>>, FALSE, test_list, c.exc, None)
            \/ /\ c.exc = "none"
               /\ \E gone \in FirstPops(c.nodes, Some(clock + 1)) :
                     project' = Remove(c.nodes, {gone})
               /\ last' = ModelOp("refresh", <<>>, <<>>, FALSE, test_list, "RuntimeError", None)
    /\ UNCHANGED <<childVars, readerVars, pollVars, eventVars, termVars, engine>>

NextModel ==
    \/ ConfirmExists
    \/ SetActive
    \/ ToggleActive
    \/ Refresh

SpecModel == Init /\ [][NextModel]_vars

(***************************************************************************)
(* C13.  Feeding confirm_exists a dotted path it was fed before (its       *)
(* method node is still in the tree: no sweep has purged it) returns that  *)
(* same node and creates nothing: the call returns the node at the path,   *)
(* the tree has the same nodes, and every node is as it was, the returned  *)
(* one but for the timestamp the call stamps on it.  The same holds for    *)
(* the labels a refresh confirms.                                          *)
(***************************************************************************)
IsMethodAt(nodes, test_label) ==
    test_label \in DOMAIN nodes /\ nodes[test_label].kind = "TestMethod"

SameBut(before, after, test_label, timestamp) ==
    /\ DOMAIN after = DOMAIN before
    /\ after = [before EXCEPT ![test_label].timestamp = timestamp]

C13_ConfirmIsStable ==
    [][/\ (last'.op = "confirm_exists" /\ clock' = clock + 1
            /\ IsMethodAt(project, last'.label))
          => /\ last'.exc = "none"
             /\ last'.ret = Some(last'.label)
             /\ SameBut(project, project', last'.label, None)
       /\ (last'.op = "refresh" /\ clock' = clock + 1)
          => \A test_label \in last'.test_list :
                IsMethodAt(project, test_label)
                => /\ IsMethodAt(project', test_label)
                   /\ project'[test_label] =
                        [project[test_label] EXCEPT !.timestamp = Some(clock')]
      ]_vars

(* a method that had been deactivated is fed again: it exists, it is the   *)
(* node returned, and it is still inactive (a new node would be active)    *)
C13_Witness ==
    /\ last.op = "confirm_exists"
    /\ last.ret = Some(last.label)
    /\ Len(last.label) = 4
    /\ ~project[last.label].active

(***************************************************************************)
(* C14.  set_active(False) on an active TestCase leaves every TestMethod   *)
(* of the case inactive and leaves the parent Module's flag equal to       *)
(* "some child of the Module is active"; and set_active(True) on a Method  *)
(* that is inactive together with all its ancestors leaves its Case and    *)
(* every Module above it active.                                           *)
(***************************************************************************)
Ancestors(id) == {SubSeq(id, 1, k) : k \in 1..(Len(id) - 1)}
SomeChildActive(nodes, id) == \E c \in Children(nodes, id) : nodes[c].active
SetsActive(op) == op \in {"set_active", "toggle_active"}

C14_CaseOffMethodOn ==
    [][/\ (SetsActive(last'.op) /\ clock' = clock + 1 /\ ~last'.value
            /\ project[last'.node].kind = "TestCase" /\ project[last'.node].active)
          => /\ \A c \in Children(project', last'.node) : ~project'[c].active
             /\ Parent(last'.node) # <<>>
                => (project'[Parent(last'.node)].active
                        <=> SomeChildActive(project', Parent(last'.node)))
       /\ (SetsActive(last'.op) /\ clock' = clock + 1 /\ last'.value
            /\ project[last'.node].kind = "TestMethod"
            /\ ~project[last'.node].active
            /\ \A a \in Ancestors(last'.node) : ~project[a].active)
          => \A a \in Ancestors(last'.node) : project'[a].active
      ]_vars

(***************************************************************************)
(* C15.  After any sequence of model operations every Module or Case that  *)
(* has at least one child is active if and only if at least one of its     *)
(* children is active.                                                     *)
(***************************************************************************)
IsContainer(nodes, id) == nodes[id].kind # "TestMethod"
ActiveIffChild(nodes) ==
    \A c \in DOMAIN nodes :
        (IsContainer(nodes, c) /\ Children(nodes, c) # {})
        => (nodes[c].active <=> SomeChildActive(nodes, c))

C15_ActiveIffChild == ActiveIffChild(project)

(***************************************************************************)
(* C16.  After set_active(v) returns on a Module or Case, every node below *)
(* it (sub-Modules, Cases, Methods) has active = v, for v = False and for  *)
(* v = True, whatever the flags were before the call.                      *)
(***************************************************************************)
Descendants(nodes, id) ==
    {c \in DOMAIN nodes : Len(c) > Len(id) /\ SubSeq(c, 1, Len(id)) = id}

C16_CascadeToDescendants ==
    (SetsActive(last.op) /\ IsContainer(project, last.node))
    => \A c \in Descendants(project, last.node) : project[c].active = last.value

(***************************************************************************)
(* C17.  After Project.refresh(test_list) the Method nodes of the tree are *)
(* exactly the nodes of the labels in test_list (every other Method has    *)
(* been removed) and no Module or Case without children remains.           *)
(***************************************************************************)
Methods(nodes) == {c \in DOMAIN nodes : nodes[c].kind = "TestMethod"}
Swept(nodes, test_list) ==
    /\ Methods(nodes) = {l \in test_list : Len(l) >= 2}
    /\ \A c \in DOMAIN nodes : IsContainer(nodes, c) => Children(nodes, c) # {}

C17_RefreshSweeps == last.op = "refresh" => Swept(project, last.test_list)

(***************************************************************************)
(* C18.  For every label of two or more segments the node returned by      *)
(* confirm_exists(label) has path equal to the label: the dot-joined names *)
(* from below the Project down to the node, with no leading dot.           *)
(***************************************************************************)
C18_PathIsLabel ==
    (last.op = "confirm_exists" /\ Len(last.label) >= 2)
    => /\ last.exc = "none"
       /\ last.ret # None
       /\ path(project, last.ret[1]) = last.label

(***************************************************************************)
(* C19.  In a run of the encoder that starts at least one test and         *)
(* completes, the lines written are STX, record, (US, record)*, ETX, each  *)
(* record one start frame followed only by finish lines: the first line is *)
(* STX and it is the only STX, ETX is the last line and the only ETX,      *)
(* every start frame comes right after STX or US, every STX or US is       *)
(* followed at once by a start frame, and there is no other kind of line.  *)
(***************************************************************************)
HasStartFrame(stream) == \E i \in DOMAIN stream : IsStartFrame(stream[i])

FramedStream(stream) ==
    /\ stream[1] = START_TEST_RESULTS
    /\ stream[Len(stream)] = END_TEST_RESULTS
    /\ \A i \in DOMAIN stream :
          /\ stream[i] = START_TEST_RESULTS => i = 1
          /\ stream[i] = END_TEST_RESULTS => i = Len(stream)
          /\ IsStartFrame(stream[i])
             => i > 1 /\ stream[i - 1] \in {START_TEST_RESULTS, RESULT_SEPARATOR}
          /\ stream[i] \in {START_TEST_RESULTS, RESULT_SEPARATOR}
             => i < Len(stream) /\ IsStartFrame(stream[i + 1])
          /\ stream[i] \in Markers \/ IsStartFrame(stream[i]) \/ IsFinishFrame(stream[i])

C19_StreamIsFramed ==
    (enc.done /\ HasStartFrame(child_stdout)) => FramedStream(child_stdout)

(***************************************************************************)
(* C20.  A finish callback of the encoder that arrives when no test is     *)
(* current first writes a synthesized start frame: the lines it writes are *)
(* the marker, a start frame and then its finish line.                     *)
(***************************************************************************)
Written == SubSeq(child_stdout', Len(child_stdout) + 1, Len(child_stdout'))

C20_FinishHasStart ==
    [][(Len(child_stdout') > Len(child_stdout) /\ IsFinishFrame(Last(child_stdout'))
         /\ enc.current_test = None)
       => /\ Len(Written) = 3
          /\ Written[1] \in {START_TEST_RESULTS, RESULT_SEPARATOR}
          /\ IsStartFrame(Written[2])
      ]_vars

(***************************************************************************)
(* The child that reports one test of a suite of total_count tests, the    *)
(* test ending at one of several times: with the start at 1 the estimate   *)
(* of the remaining time falls on, just below and just above each          *)
(* threshold of the label.                                                 *)
(***************************************************************************)
EndTimes == {1, 31, 61, 62, 121, 122, 2401, 2402, 4801, 4802, 9601}
FinishAt(end_time) ==
    [t |-> "obj", o |-> [status |-> "OK", end_time |-> end_time,
                         description |-> <<"d">>, output |-> <<>>]]
TimedLines(k) ==
    IF k = 1 THEN {START_TEST_RESULTS}
    ELSE IF k = 2 THEN {StartFrame(<<"m", "C", "t1">>)}
    ELSE IF k = 3 THEN {FinishAt(e) : e \in EndTimes}
    ELSE {RESULT_SEPARATOR, END_TEST_RESULTS}

ChildWriteTimed ==
    /\ ~exited
    /\ Len(child_stdout) < 4
    /\ \E line \in TimedLines(Len(child_stdout) + 1) :
          child_stdout' = Append(child_stdout, line)
    /\ UNCHANGED <<enc, child_stderr, exited, readerVars, runnerVars, modelVars>>

NextTimed ==
    \/ ChildWriteTimed
    \/ ChildExit
    \/ enqueue_stdout
    \/ Poll

SpecTimed == Init /\ [][NextTimed]_vars

(***************************************************************************)
(* C21.  The remaining_time string of a test_end is chosen from the        *)
(* remaining time r by exact thresholds: r > 4800 an hours string,         *)
(* 2400 < r <= 4800 exactly "1 hour", 120 < r <= 2400 a minutes string,    *)
(* 60 < r <= 120 exactly "1 min", r <= 60 int(r) followed by "s".  At the  *)
(* i-th flush r is (total_count - i) * (end_time - start_time) / i, the    *)
(* fraction num / den.                                                     *)
(***************************************************************************)
ClaimedLabel(label, num, den) ==
    IF num > 4800 * den THEN label.unit = " hours"
    ELSE IF num > 2400 * den THEN label = [n |-> 1, unit |-> " hour"]
    ELSE IF num > 120 * den THEN label.unit = " mins"
    ELSE IF num > 60 * den THEN label = [n |-> 1, unit |-> " min"]
    ELSE label = [n |-> TruncDiv(num, den), unit |-> "s"]

C21_RemainingThresholds ==
    Len(TestEnds) = Len(flushed)
    /\ \A i \in DOMAIN flushed :
          ClaimedLabel(TestEnds[i].remaining_time,
                       (total_count - i)
                         * (Last(flushed[i].buffer).o.end_time - start_time[1]),
                       i)

(***************************************************************************)
(* Runner.any_failed: the sum of result_count over the failing states.     *)
(***************************************************************************)
RECURSIVE SumCounts(_, _)
SumCounts(counts, states) ==
    IF states = {} THEN 0
    ELSE LET state == CHOOSE x \in states : TRUE
         IN counts[state] + SumCounts(counts, states \ {state})

(* Variant for C22: every state counts as failing. *)
any_failed_AllStates(counts) == SumCounts(counts, Statuses)

any_failed(counts) == SumCounts(counts, FAILING_STATES)

(***************************************************************************)
(* C22.  After any sequence of polls any_failed is the number of records   *)
(* flushed so far whose status is FAIL, UNEXPECTED_SUCCESS or ERROR;       *)
(* records with PASS, SKIP or EXPECTED_FAIL do not contribute.             *)
(***************************************************************************)
FailedRecords ==
    {i \in DOMAIN flushed :
        flushed[i].result.status \in {STATUS_FAIL, STATUS_UNEXPECTED_SUCCESS, STATUS_ERROR}}

MaxBind == 3
Classes == {"Project", "UnittestProject"}
BoundEvents == {"test_start", "test_end"}
Handlers == {"h1", "h2", "hKeyError", "hOther"}

Outcome(handler) ==
    CASE handler = "hKeyError" -> "KeyError"
      [] handler = "hOther" -> "Exception"
      [] OTHER -> "none"

(* dict.setdefault(key, default), as the dictionary it leaves *)
SetDefault(dict, key, default) ==
    IF key \in DOMAIN dict THEN dict
    ELSE [k \in DOMAIN dict \cup {key} |-> IF k = key THEN default ELSE dict[k]]

BindEvent(by_event, event, handler) ==
    [SetDefault(by_event, event, <<>>) EXCEPT ![event] = Append(@, handler)]

bind(table, cls, event, handler) ==
    [SetDefault(table, cls, <<>>) EXCEPT ![cls] = BindEvent(@, event, handler)]

(* the for loop of emit: the handlers called, and the exception that ended *)
(* the loop, if one did                                                    *)
RECURSIVE CallHandlers(_, _)
CallHandlers(handlers, called) ==
    IF handlers = <<>> THEN [called |-> called, exc |-> "none"]
    ELSE IF Outcome(Head(handlers)) # "none"
         THEN [called |-> Append(called, Head(handlers)),
               exc |-> Outcome(Head(handlers))]
         ELSE CallHandlers(Tail(handlers), Append(called, Head(handlers)))

(* try: the lookups and the loop; except KeyError: pass *)
Swallow(r) == IF r.exc = "KeyError" THEN [r EXCEPT !.exc = "none"] ELSE r

emit(table, cls, event) ==
    IF cls \notin DOMAIN table THEN [called |-> <<>>, exc |-> "none"]
    ELSE IF event \notin DOMAIN table[cls] THEN [called |-> <<>>, exc |-> "none"]
    ELSE Swallow(CallHandlers(table[cls][event], <<>>))

Bind ==
    /\ Len(bindings) < MaxBind
    /\ \E cls \in Classes, event \in BoundEvents, handler \in Handlers :
         /\ _events' = bind(_events, cls, event, handler)
         /\ bindings' = Append(bindings, <<cls, event, handler>>)
         /\ emitted' = EventOp("bind", cls, event, <<>>, "none")
    /\ UNCHANGED <<childVars, readerVars, runnerVars, clock, last, termVars, engine>>

EmitEvent ==
    /\ \E cls \in Classes, event \in BoundEvents :
         \E r \in {emit(_events, cls, event)} :
            emitted' = EventOp("emit", cls, event, r.called, r.exc)
    /\ UNCHANGED <<childVars, readerVars, runnerVars, clock, last, _events, bindings,
                   termVars, engine>>

NextEvents ==
    \/ Bind
    \/ EmitEvent

SpecEvents == Init /\ [][NextEvents]_vars

(* the handlers bound for the event on the class, in binding order *)
RECURSIVE BoundFor(_, _, _)
BoundFor(calls, cls, event) ==
    IF calls = <<>> THEN <<>>
    ELSE IF Head(calls)[1] = cls /\ Head(calls)[2] = event
         THEN <<Head(calls)[3]>> \o BoundFor(Tail(calls), cls, event)
         ELSE BoundFor(Tail(calls), cls, event)

(***************************************************************************)
(* C23.  An emit that returns has called every handler bound for that      *)
(* event on the object's class, each once for each time it was bound and   *)
(* in binding order, and no other handler; with no handler bound it        *)
(* returns having called nothing.                                          *)
(***************************************************************************)
C23_EmitCallsBound ==
    (emitted.op = "emit" /\ emitted.exc = "none")
        => emitted.called = BoundFor(bindings, emitted.cls, emitted.event)

(***************************************************************************)
(* Cancellation.  Runner.terminate signals the child; the child exits (now *)
(* or later, and it may still write before it does).  A reader thread that *)
(* has read every line of its pipe after the child has exited reads b'',   *)
(* leaves the loop of enqueue_output, closes the pipe and ends.  The       *)
(* caller polls again after every call that has not returned False.        *)
(***************************************************************************)
MaxTermLines == 3
Streams == {"stdout", "stderr"}

Terminate ==
    /\ ~terminated
    /\ ~exited
    /\ terminated' = TRUE
    /\ UNCHANGED <<childVars, readerVars, runnerVars, clock, last, eventVars, closed, engine>>

TermLines == {START_TEST_RESULTS, StartFrame(<<"m", "C", "t1">>), END_TEST_RESULTS}
ChildWriteTerm ==
    /\ ~exited
    /\ Len(child_stdout) < MaxTermLines
    /\ \E line \in TermLines : child_stdout' = Append(child_stdout, line)
    /\ UNCHANGED <<enc, child_stderr, exited, readerVars, runnerVars, modelVars>>

AtEOF(stream) ==
    /\ exited
    /\ IF stream = "stdout" THEN rd_stdout = Len(child_stdout)
                            ELSE rd_stderr = Len(child_stderr)

ReaderEnds ==
    /\ \E stream \in Streams \ closed :
         /\ AtEOF(stream)
         /\ closed' = closed \cup {stream}
    /\ UNCHANGED <<childVars, readerVars, runnerVars, clock, last, eventVars, terminated,
                   engine>>

PollAgain ==
    /\ ret # "False"
    /\ PollCall

NextTerminate ==
    \/ ChildWriteTerm
    \/ ChildWriteErr
    \/ ChildExit
    \/ Terminate
    \/ enqueue_stdout
    \/ enqueue_stderr
    \/ ReaderEnds
    \/ PollAgain

(* the child signalled exits; the readers and the polling caller run on *)
SpecTerminate ==
    /\ Init
    /\ [][NextTerminate]_vars
    /\ WF_vars(terminated /\ ChildExit)
    /\ WF_vars(enqueue_stdout)
    /\ WF_vars(enqueue_stderr)
    /\ WF_vars(ReaderEnds)
    /\ WF_vars(PollAgain)

(***************************************************************************)
(* C24.  Once terminate has been called on a running child, eventually     *)
(* both reader threads have ended and a poll has returned False with       *)
(* suite_end or suite_error as the last event.                             *)
(***************************************************************************)
Stopped ==
    /\ ret = "False"
    /\ events # <<>>
    /\ Last(events).name \in {"suite_end", "suite_error"}

C24_TerminateEnds == terminated ~> (closed = Streams /\ Stopped)

(* terminate was called while lines were still in the pipe; they were read *)
(* and polled, both readers ended and the last poll stopped the polling    *)
C24_Witness ==
    /\ terminated
    /\ closed = Streams
    /\ Stopped
    /\ consumed # <<>>

(***************************************************************************)
(* C25.  A poll called while both queues are empty and the child is still  *)
(* running emits no event, leaves the buffer, the current test, the        *)
(* counters, the error buffer and the hierarchy as they were, and returns  *)
(* True.  It never waits: the call is one step whatever the pipes hold.    *)
(***************************************************************************)
IdlePoll == ~exited /\ stdout = <<>> /\ stderr = <<>> /\ Poll

C25_IdlePollIsNoOp ==
    [][IdlePoll =>
         /\ ret' = "True"
         /\ UNCHANGED <<events, buffer, current_test, total_count, completed_count,
                        result_count, start_time, error_buffer, project, flushed>>]_vars

(* every poll so far was called with both queues empty while the child was *)
(* running, and the last returned True; a line the child wrote is still in *)
(* the pipe, unread                                                        *)
C25_Witness ==
    /\ ret = "True"
    /\ ~exited
    /\ consumed = <<>>
    /\ error_buffer = <<>>
    /\ stdout = <<>> /\ stderr = <<>>
    /\ rd_stdout < Len(child_stdout)

(***************************************************************************)
(* C26.  If the child wrote the complete stream of one passing test, ETX   *)
(* included, before it exited, then the poll that ends the polling emits   *)
(* suite_end, whatever the readers and the polls did in between; and when  *)
(* suite_error is emitted, every stdout line the child wrote has been      *)
(* taken by a poll.                                                        *)
(***************************************************************************)
C26_CompleteStreamEndsSuite ==
    /\ (child_stdout = HappyStream /\ ret = "False")
          => Last(events).name = "suite_end"
    /\ (events # <<>> /\ Last(events).name = "suite_error")
          => consumed = child_stdout

(***************************************************************************)
(* C27.  A poll returns False exactly when it emitted suite_end or         *)
(* suite_error in that call: as long as no poll has returned False no such *)
(* event has been emitted, and once one has, exactly one terminal event    *)
(* has been emitted and it is the last event of the run.                   *)
(***************************************************************************)
Terminals == {i \in DOMAIN events : events[i].name \in {"suite_end", "suite_error"}}

C27_FalseIffTerminal ==
    IF ret = "False" THEN Terminals = {Len(events)} ELSE Terminals = {}

(* the polling ended with suite_error after a poll that met a line that is *)
(* no start frame, emitted 'suit_end' and returned True                    *)
C27_Witness ==
    /\ ret = "False"
    /\ Len(events) > 1
    /\ Last(events).name = "suite_error"
    /\ \E i \in DOMAIN events : events[i].name = "suit_end"

(***************************************************************************)
(* C28.  When a poll has returned, the decoder is in one of its three      *)
(* states with a matching current test: with buffer None or empty there is *)
(* no current test; with lines in the buffer the current test is a         *)
(* TestMethod node and the first buffered line is the start frame that     *)
(* names it.                                                               *)
(***************************************************************************)
Returned == ret \in {"True", "False"}

C28_DecoderStateConsistent ==
    Returned =>
        IF buffer = None \/ buffer[1] = <<>>
        THEN current_test = None
        ELSE /\ current_test # None
             /\ IsMethodAt(project, current_test[1])
             /\ IsJson(buffer[1][1])
             /\ Has(JsonLoads(buffer[1][1]), "path")
             /\ JsonLoads(buffer[1][1]).path = current_test[1]

(***************************************************************************)
(* C29.  Whenever a poll has returned, by value or by exception, the       *)
(* number of completed tests equals the sum of the result counts, and both *)
(* equal the number of test_end events emitted so far.                     *)
(***************************************************************************)
C29_CountsAgree ==
    /\ completed_count = SumCounts(result_count, Statuses)
    /\ completed_count = Len(TestEnds)

(***************************************************************************)
(* The child that reports two tests: the first with its finish frame (end  *)
(* time 31), the second with a finish frame of its own (end time 61) or    *)
(* with none before the next marker.                                       *)
(***************************************************************************)
T2 == <<"m", "C", "t2">>
IsMarker(line) == line \in Markers

RecordLines(k) ==
    IF k = 1 THEN {START_TEST_RESULTS}
    ELSE IF k = 2 THEN {StartFrame(T1)}
    ELSE IF k = 3 THEN {FinishAt(31)}
    ELSE IF k = 4 THEN {RESULT_SEPARATOR}
    ELSE IF k = 5 THEN {StartFrame(T2)}
    ELSE IF k = 6 THEN {FinishAt(61), RESULT_SEPARATOR, END_TEST_RESULTS}
    ELSE {RESULT_SEPARATOR, END_TEST_RESULTS}

ChildWriteRecords ==
    /\ ~exited
    /\ Len(child_stdout) < 7
    /\ Len(child_stdout) = 6 => ~IsMarker(child_stdout[6])
    /\ \E line \in RecordLines(Len(child_stdout) + 1) :
          child_stdout' = Append(child_stdout, line)
    /\ UNCHANGED <<enc, child_stderr, exited, readerVars, runnerVars, modelVars>>

NextRecords ==
    \/ ChildWriteRecords
    \/ ChildExit
    \/ enqueue_stdout
    \/ Poll

SpecRecords == Init /\ [][NextRecords]_vars

(***************************************************************************)
(* C30.  The result recorded for a test comes from the lines of its own    *)
(* record: the record has a finish frame of its own, and the recorded      *)
(* output and duration are those of its own last finish frame and its own  *)
(* start frame, never those of a frame of an earlier record.               *)
(***************************************************************************)
FromOwnRecord(record, result) ==
    /\ Len(record) >= 2
    /\ IsFinishFrame(Last(record))
    /\ result.output = Some(Last(record).o.output)
    /\ result.duration = Last(record).o.end_time - record[1].o.start_time

C30_ResultFromOwnRecord ==
    \A i \in DOMAIN flushed : FromOwnRecord(flushed[i].buffer, flushed[i].result)

(***************************************************************************)
(* C31.  Every line a poll that returns has taken from the stdout queue is *)
(* handled by the decoder in that poll: the for loop comes to each of      *)
(* them, also to those that follow a malformed line in the same batch.     *)
(***************************************************************************)
(* the number of lines the for loop comes to, the one it leaves at included *)
RECURSIVE Handled(_, _)
Handled(st, lines) ==
    IF lines = <<>> \/ st.ctl # "run" THEN 0
    ELSE CHOOSE n \in {1 + Handled(next, Tail(lines)) :
                          next \in {ProcessLine(st, Head(lines))}} : TRUE

C31_EveryLineHandled ==
    [][(Poll /\ ret' \in {"True", "False"})
          => Handled(PollState, stdout) = Len(stdout)]_vars

(***************************************************************************)
(* C32.  When set_active or toggle_active is called on one TestMethod, or  *)
(* confirm_exists creates a TestMethod, every other TestMethod that was    *)
(* already there keeps its active flag.                                    *)
(***************************************************************************)
OthersKeepActive(before, after, id) ==
    \A other \in Methods(before) \ {id} :
        other \in DOMAIN after /\ after[other].active = before[other].active

C32_OtherMethodsUntouched ==
    [][/\ (SetsActive(last'.op) /\ clock' = clock + 1
            /\ project[last'.node].kind = "TestMethod")
          => OthersKeepActive(project, project', last'.node)
       /\ (last'.op = "confirm_exists" /\ clock' = clock + 1
            /\ last'.exc = "none" /\ last'.ret # None
            /\ last'.ret[1] \notin DOMAIN project)
          => OthersKeepActive(project, project', last'.ret[1])]_vars


(***************************************************************************)
(* The child running a suite of total_count tests.  PipedTestRunner.run    *)
(* hands the result object to the test engine (test(result), 298), which   *)
(* runs one test after the other: startTest, the test body, tearDown, and  *)
(* one callback for each outcome.  A body that passes is followed by       *)
(* addSuccess.  A body that raises is reported with addError, and so is a  *)
(* tearDown that raises after it: the first addError has cleared           *)
(* _current_test (154), so the second one calls startTest again (141-142). *)
(* After the last test run() writes the end marker and the child exits.    *)
(***************************************************************************)
RunTest(k) == <<"m", "C", IF k = 1 THEN "t1" ELSE IF k = 2 THEN "t2" ELSE "t3">>

(* addError 141-153: the lines one call writes *)
ErrorLines(test) ==
    (IF enc.current_test = None THEN StartLines(test) ELSE <<>>)
        \o <<FinishFrameErr("E", <<"tb">>)>>

EngineWrite(lines, current, phase, ran) ==
    /\ ~exited
    /\ ~enc.done
    /\ child_stdout' = child_stdout \o lines
    /\ enc' = [enc EXCEPT !.current_test = current,
                          !.first = IF lines # <<>> /\ lines[1] \in Markers
                                    THEN FALSE ELSE @]
    /\ engine' = [ran |-> ran, phase |-> phase]
    /\ UNCHANGED <<child_stderr, exited, readerVars, runnerVars, clock, last,
                   eventVars, termVars>>

RunStart ==
    /\ engine.phase = "idle"
    /\ engine.ran < total_count
    /\ EngineWrite(StartLines(RunTest(engine.ran + 1)),
                   Some(RunTest(engine.ran + 1)), "body", engine.ran)

RunPass ==
    /\ engine.phase = "body"
    /\ EngineWrite(<<FinishFrame("OK")>>, None, "idle", engine.ran + 1)

RunError ==
    /\ engine.phase = "body"
    /\ EngineWrite(ErrorLines(RunTest(engine.ran + 1)), None, "teardown",
                   engine.ran)

RunTeardownOk ==
    /\ engine.phase = "teardown"
    /\ EngineWrite(<<>>, enc.current_test, "idle", engine.ran + 1)

RunTeardownError ==
    /\ engine.phase = "teardown"
    /\ EngineWrite(ErrorLines(RunTest(engine.ran + 1)), None, "idle",
                   engine.ran + 1)

RunEnd ==
    /\ engine.phase = "idle"
    /\ engine.ran = total_count
    /\ run

NextRun ==
    \/ RunStart
    \/ RunPass
    \/ RunError
    \/ RunTeardownOk
    \/ RunTeardownError
    \/ RunEnd
    \/ (enc.done /\ ChildExit)
    \/ enqueue_stdout
    \/ Poll

SpecRun == Init /\ [][NextRun]_vars

(***************************************************************************)
(* C33.  Whatever the engine reports for a run of total_count tests, also  *)
(* an error in the body of a test and another in its tearDown, the count   *)
(* of completed tests never exceeds total_count, so that the remaining     *)
(* time (total_count - completed_count) * average is never negative.       *)
(***************************************************************************)
C33_CompletedWithinTotal == completed_count <= total_count

====
